---- MODULE Spec2Model ----
(***************************************************************************)
(* Model of the resumable sync state machine of the Sui events dashboard   *)
(* worker: SyncService (workers/src/services/sync.ts, first class of the   *)
(* file), the part of GoogleSheetsService.batchWriteToSheet it drives, and *)
(* the guest/event listing of LumaService as seen by the state machine.    *)
(*                                                                         *)
(* The persisted SyncState lives in Durable Object storage under the key   *)
(* 'syncState'; every handler reads it with initState and merges updates   *)
(* into it with updateState.  Each public method of SyncService is one     *)
(* action; the awaits inside one method run to completion within the       *)
(* action (one invocation in flight at a time).                            *)
(***************************************************************************)
EXTENDS Integers, Sequences, FiniteSets, TLC

(***************************************************************************)
(* Bounds of the model.                                                    *)
(***************************************************************************)
\* number of distinct event ids the event listing can return
MaxEvents == 2
\* number of guest pages one event can have
MaxPages == 2
\* number of injected failures (failed fetches, failed sink calls) per behaviour
MaxFaults == 1
\* number of queueAllEvents calls that start a run per behaviour
MaxRuns == 2
\* sync.ts:47 GUESTS_PER_FETCH = 50, scaled down: largest guest page
GUESTS_PER_FETCH == 2
\* sync.ts:46 EVENTS_PER_FETCH = 50, scaled down: largest event listing page
EVENTS_PER_FETCH == 1

\* part_006:211 MAX_CONCURRENT_REQUESTS = 3, scaled down: requests of
\* fetchWithAuth in flight at a time
MAX_CONCURRENT_REQUESTS == 2
\* part_006:260 retries = 3, scaled down: attempts of one fetchWithRetry
Retries == 2
\* number of ticks the clock of the rate limiter advances per behaviour
MaxTicks == 4
\* number of processPendingEvents invocations that can be in flight at a time
MaxInFlight == 2

\* number of distinct guest api_ids: one more than a page holds, so that a
\* page can take the buffer beyond the flush threshold
MaxGuests == GUESTS_PER_FETCH + 1

\* sync.ts:50 GUESTS_FLUSH_THRESHOLD = 500, scaled down with GUESTS_PER_FETCH
GUESTS_FLUSH_THRESHOLD == GUESTS_PER_FETCH

\* googleSheets.ts:941 BATCH_SIZE = 500 rows per sub-batch; the source has it
\* equal to GUESTS_FLUSH_THRESHOLD, and so does the model
SHEET_BATCH_SIZE == GUESTS_FLUSH_THRESHOLD

\* sync.ts:45 BATCH_SIZE = 1: events handled per processBatch
BATCH_SIZE == 1

\* an undefined pagination cursor (nextCursor?: string left undefined)
NoCursor == 0
\* an undefined date filter (after?/before? left undefined)
NoDate == 0
\* lastSyncTime of a state that was never synced
NeverSynced == 0
\* Date.now(): some positive timestamp
Now == 1

\* part_006:216 new RateLimiter(300): maxTokensPerMinute
maxTokens == 300
\* part_006:133 minDelay = 1000 / (maxTokensPerMinute / 60) = 200 ms, in ticks
\* of the model's clock (one tick is 100 ms)
minDelay == 2
\* part_006:132 refillRate = maxTokensPerMinute / 60000 per ms, which is one
\* token per minDelay: the bucket is counted in units of 1/minDelay token,
\* one unit per tick
TokenUnits == minDelay
\* Date.now() when the RateLimiter is constructed: any time at least
\* minDelay after time 0 (lastRequestTime starts at 0)
StartTime == minDelay

\* the places an invocation of processPendingEvents can hold
Slots == 1..MaxInFlight

\* the concurrent callers of LumaService: one more than the gate lets through
Callers == 1..(MAX_CONCURRENT_REQUESTS + 1)

EventIds == 1..MaxEvents
GuestIds == 1..MaxGuests

Min(a, b) == IF a < b THEN a ELSE b
Max(a, b) == IF a > b THEN a ELSE b

(***************************************************************************)
(* Variants of single steps of the code, each differing from the code in   *)
(* one point, under which the property named with it fails.                *)
(***************************************************************************)
\* C5: a flushGuestsBuffer that never records the first write of the sheet
SheetNeverInitialized(cleared, initialized) == cleared

\* C6: a catch of flushGuestsBuffer that does not put the rows back
RestoreBufferDropped(stateAfterError, buffer) == stateAfterError

\* C10: a processBatch that adds BATCH_SIZE instead of the slice's length
NewIndexOfFullBatch(lastProcessedIndex, batch) == lastProcessedIndex + BATCH_SIZE

\* C11: a stopSync that marks the run as not started instead of completed
StopSyncAsEvents(state) ==
  [state EXCEPT !.currentStage = "events",
                !.lastProcessedIndex = Len(state.pendingEvents)]

\* C14: a listing loop that passes the filter with the first page only
ListingFilterFirstOnly(isFirst, dateRange) ==
  IF isFirst THEN dateRange ELSE [after |-> NoDate, before |-> NoDate]

\* C16: a processBatch that takes every remaining event instead of BATCH_SIZE
BatchOfRemainder(pendingEvents, lastProcessedIndex) ==
  SubSeq(pendingEvents, lastProcessedIndex + 1, Len(pendingEvents))

\* C24: a gate of fetchWithAuth that lets one request more through
AtCapacityOffByOne(activeRequests) == activeRequests > MAX_CONCURRENT_REQUESTS

\* C39: a fetchWithAuth that gives its slot back after a response only, not
\* after a timeout
FetchEndedKeepingSlot(l, c, outcome) ==
  [l EXCEPT !.activeRequests = IF outcome = "timeout" THEN @ ELSE @ - 1,
            !.caller[c].log = Append(@, outcome),
            !.caller[c].pc = IF outcome = "ok" THEN "returned"
                             ELSE IF l.caller[c].i = Retries - 1 THEN "threw"
                             ELSE "backoff"]

\* C25: an acquireToken whose wait ends without looking at lastRequestTime
SpacingNotChecked(now, lastRequestTime) == TRUE

\* C30: an updateState that merges the updates into the state its caller
\* read before the await
UpdateStateReadsStale(stored, state) == state

\* C28: a processBatch whose catch does not record the failed event
CatchNothing(r, eventId) == r.c

\* C19: a stopSync that also drops the buffered rows
StopSyncClearingBuffer(state) ==
  [state EXCEPT !.currentStage = "completed",
                !.lastProcessedIndex = Len(state.pendingEvents),
                !.allGuestsData = <<>>]

VARIABLES
  storage,      \* Durable Object storage: <<>> (no 'syncState' key) or <<SyncState>>
  guestsSheet,  \* rows of the 'Guests' sheet, top to bottom
  eventsSheet,  \* rows of the 'Events' sheet, top to bottom
  faults,       \* failures injected so far
  runs,         \* runs started so far
  call,         \* what the last handler invocation did (fetches, sink writes, outcome)
  history,      \* what the current run did so far (kept by SpecRun and SpecRetry)
  script,       \* the guest pages of a source with fixed content (SpecRetry)
  luma,         \* LumaService and its RateLimiter with their callers (SpecLuma)
  driver        \* the interval of startProcessing and the invocations of
                \* processPendingEvents in flight (SpecDriver)

vars == <<storage, guestsSheet, eventsSheet, faults, runs, call, history, script, luma, driver>>

\* the state of the sync service and its sinks
syncVars == <<storage, guestsSheet, eventsSheet, faults, runs, call, history, script>>

(***************************************************************************)
(* SyncState                                                               *)
(***************************************************************************)
\* the state initState creates when storage holds none
DefaultState ==
  [ lastSyncTime           |-> NeverSynced,
    currentStage           |-> "events",
    pendingEvents          |-> <<>>,
    failedEvents           |-> <<>>,
    lastProcessedIndex     |-> 0,
    eventDetails           |-> {},
    nextCursor             |-> NoCursor,
    hasMore                |-> TRUE,
    dateRange              |-> <<>>,
    currentEventGuests     |-> <<>>,
    allGuestsData          |-> <<>>,
    guestsSheetInitialized |-> FALSE ]

\* initState: the stored state, or the default one (which it then stores)
InitState(st) == IF st = <<>> THEN DefaultState ELSE st[1]

(***************************************************************************)
(* The tabular sink (GoogleSheetsService).  A sheet is the sequence of its *)
(* rows; a data row is <<api_id, event api_id>> (columns 0 and 1 of the    *)
(* rows SyncService builds), the header row is HeaderRow.                  *)
(***************************************************************************)
HeaderRow == <<0, 0>>

GuestRow(g, e) == <<g, e>>
EventRow(e) == <<e, 0>>

\* A sink fault: failStep = k > 0 makes the k-th HTTP call that changes the
\* sheet fail (the calls before it took effect); readFails makes the read of
\* the sheet's extent in getNextAvailableRow fail.
NoSinkFault == [failStep |-> 0, readFails |-> FALSE]

\* number of sheet-changing calls of batchWriteToSheet(sheet, values, append):
\* one PUT per sub-batch, and the clear of an overwrite
SinkCalls(values, append) ==
  LET n == Len(values)
      batches == (n + SHEET_BATCH_SIZE - 1) \div SHEET_BATCH_SIZE
  IN  IF n = 0 THEN 0 ELSE IF append THEN batches ELSE batches + 1

\* the faults that can hit batchWriteToSheet(sheet, values, append)
SinkFaults(values, append) ==
  [failStep : 0..SinkCalls(values, append),
   readFails : IF append /\ Len(values) > 0 THEN BOOLEAN ELSE {FALSE}]

\* PUT values/<range starting at startRow>: the cells of the range are replaced
PutRange(sheet, startRow, rows) ==
  LET n == Max(Len(sheet), startRow + Len(rows) - 1)
  IN  [i \in 1..n |->
         IF i >= startRow /\ i < startRow + Len(rows) THEN rows[i - startRow + 1]
         ELSE IF i <= Len(sheet) THEN sheet[i]
         ELSE HeaderRow]

\* getNextAvailableRow: number of rows in column A plus one; 1 when the read fails
GetNextAvailableRow(sheet, readFails) ==
  IF readFails THEN 1 ELSE Len(sheet) + 1

\* the for loop of batchWriteToSheet from index i (0-based) on, writing at
\* currentRow; step numbers the sheet-changing calls of this batchWriteToSheet
RECURSIVE WriteBatches(_, _, _, _, _, _)
WriteBatches(sheet, values, i, currentRow, step, failStep) ==
  IF i >= Len(values) THEN [sheet |-> sheet, threw |-> FALSE]
  ELSE IF step = failStep THEN [sheet |-> sheet, threw |-> TRUE]
  ELSE LET batch == SubSeq(values, i + 1, Min(i + SHEET_BATCH_SIZE, Len(values)))
           startRow == currentRow
           endRow == startRow + Len(batch) - 1
       IN  WriteBatches(PutRange(sheet, startRow, batch), values,
                        i + SHEET_BATCH_SIZE, endRow + 1, step + 1, failStep)

\* writeToSheet for a non-empty values: clear the sheet (call 1), then PUT the
\* header and the values at A1 (call 2)
WriteToSheet(sheet, values, failStep) ==
  IF failStep = 1 THEN [sheet |-> sheet, threw |-> TRUE]
  ELSE IF failStep = 2 THEN [sheet |-> <<>>, threw |-> TRUE]
  ELSE [sheet |-> PutRange(<<>>, 1, <<HeaderRow>> \o values), threw |-> FALSE]

\* batchWriteToSheet in overwrite mode after writeToSheet ended as w: the
\* sub-batches after the first are written from currentRow = 1 on
OverwriteRest(w, values, failStep) ==
  IF w.threw \/ Len(values) <= SHEET_BATCH_SIZE THEN w
  ELSE WriteBatches(w.sheet, values, SHEET_BATCH_SIZE, 1, 3, failStep)

\* what a batchWriteToSheet that ended as r did
SinkOutcome(r, readFailed) ==
  [sheet |-> r.sheet, threw |-> r.threw, readFailed |-> readFailed]

\* GoogleSheetsService.batchWriteToSheet(sheetName, values, append)
BatchWriteToSheet(sheet, values, append, fault) ==
  IF Len(values) = 0 THEN [sheet |-> sheet, threw |-> FALSE, readFailed |-> FALSE]
  ELSE IF ~append
  THEN SinkOutcome(
         OverwriteRest(
           WriteToSheet(sheet, SubSeq(values, 1, Min(SHEET_BATCH_SIZE, Len(values))),
                        fault.failStep),
           values, fault.failStep),
         FALSE)
  ELSE SinkOutcome(
         WriteBatches(sheet, values, 0, GetNextAvailableRow(sheet, fault.readFails),
                      1, fault.failStep),
         fault.readFails)

(***************************************************************************)
(* The event source (LumaService).  A cursor is the number of the page it  *)
(* points to; an undefined cursor asks for the first page.                 *)
(***************************************************************************)
PageOf(cursor) == IF cursor = NoCursor THEN 1 ELSE cursor

\* the listing pages the source cuts the event list evs into
RECURSIVE ListingPages(_)
ListingPages(evs) ==
  IF Len(evs) <= EVENTS_PER_FETCH THEN <<evs>>
  ELSE <<SubSeq(evs, 1, EVENTS_PER_FETCH)>>
       \o ListingPages(SubSeq(evs, EVENTS_PER_FETCH + 1, Len(evs)))

\* the listing of a source that holds the events evs for the filter asked;
\* the response is handed on as the source sent it, and next_cursor is an
\* optional field of it: cursorAtEnd tells whether the source sends one with
\* the last page (has_more = false) too
Listing(evs, cursorAtEnd) ==
  [ pages |-> ListingPages(evs), cursorAtEnd |-> cursorAtEnd ]

\* getAllEvents(sort, dir, cursor, limit, after, before) on a source whose
\* listing for this filter is `listing`
GetAllEvents(listing, cursor) ==
  LET p == PageOf(cursor)
  IN  [ entries     |-> listing.pages[p],
        has_more    |-> p < Len(listing.pages),
        next_cursor |-> IF p < Len(listing.pages) \/ listing.cursorAtEnd
                        THEN p + 1 ELSE NoCursor ]

\* getEventGuests(eventId, cursor, limit) on a source src: src.ok tells whether
\* the request succeeds, src.page[eventId][p] is page p of the event's guests
GetEventGuests(src, eventId, cursor) ==
  LET p == PageOf(cursor)
      page == src.page[eventId][p]
      more == page.more /\ p < MaxPages
  IN  [ ok          |-> src.ok,
        entries     |-> page.entries,
        has_more    |-> more,
        next_cursor |-> IF more THEN p + 1 ELSE NoCursor ]

(***************************************************************************)
(* SyncService.  A handler works on a context c: the stored state c.s, the *)
(* two sheets, and the log of this invocation's fetches and sink writes.   *)
(***************************************************************************)
Context(st, gs, es) ==
  [ s |-> InitState(st), guests |-> gs, events |-> es,
    fetches |-> <<>>, listFetches |-> <<>>, writes |-> <<>>, nfaults |-> 0,
    started |-> <<>> ]

FreshGuestsState(eventId) ==
  [ eventId |-> eventId, nextCursor |-> NoCursor, hasMore |-> TRUE, processedCount |-> 0 ]

\* the catch of flushGuestsBuffer: the buffer of the state read after the
\* error, followed by the rows that were not written
RestoreBuffer(stateAfterError, buffer) ==
  [stateAfterError EXCEPT !.allGuestsData = stateAfterError.allGuestsData \o buffer]

\* the try of flushGuestsBuffer after a successful write: the first write of
\* the run sets guestsSheetInitialized
SheetInitialized(cleared, initialized) ==
  IF initialized THEN cleared ELSE [cleared EXCEPT !.guestsSheetInitialized = TRUE]

\* flushGuestsBuffer after the sink call on buffer ended as w; cleared is the
\* state with the buffer emptied
FlushOutcome(c, cleared, buffer, initialized, w) ==
  LET written == [c EXCEPT
                    !.guests = w.sheet,
                    !.writes = Append(@, [sheet |-> "Guests", append |-> initialized,
                                          ok |-> ~w.threw, rows |-> buffer]),
                    !.nfaults = @ + (IF w.threw THEN 1 ELSE 0)
                                  + (IF w.readFailed THEN 1 ELSE 0)]
  IN  IF w.threw
      THEN \* catch: restore the buffer and rethrow
           [c |-> [written EXCEPT !.s = RestoreBuffer(cleared, buffer)], threw |-> TRUE]
      ELSE [c |-> [written EXCEPT !.s = SheetInitialized(cleared, initialized)],
            threw |-> FALSE]

\* C18: a flushGuestsBuffer without the early return on an empty buffer
FlushGuestsBufferUnguarded(c, fault) ==
  FlushOutcome(c, [c.s EXCEPT !.allGuestsData = <<>>], c.s.allGuestsData,
               c.s.guestsSheetInitialized,
               BatchWriteToSheet(c.guests, c.s.allGuestsData,
                                 c.s.guestsSheetInitialized, fault))

\* flushGuestsBuffer(isFinal)
FlushGuestsBuffer(c, fault) ==
  LET currentState == c.s
      buffer == currentState.allGuestsData
      initialized == currentState.guestsSheetInitialized
  IN  IF Len(buffer) = 0 THEN [c |-> c, threw |-> FALSE]
      ELSE FlushOutcome(c, [currentState EXCEPT !.allGuestsData = <<>>], buffer, initialized,
                        BatchWriteToSheet(c.guests, buffer, initialized, fault))

\* processEventGuests: the stored pagination state of eventId, or a new one
GuestsStateOf(state, eventId) ==
  LET stored == state.currentEventGuests
  IN  IF stored = <<>> THEN FreshGuestsState(eventId)
      ELSE IF stored[1].eventId # eventId THEN FreshGuestsState(eventId)
      ELSE stored[1]

\* processEventGuests: the rows of the page whose api_id is not in the buffer
NewGuestsData(currentState, entries, eventId) ==
  LET guestsData == [i \in 1..Len(entries) |-> GuestRow(entries[i], eventId)]
      existingGuestIds ==
        {currentState.allGuestsData[i][1] : i \in 1..Len(currentState.allGuestsData)}
      IsNew(row) == row[1] \notin existingGuestIds
  IN  SelectSeq(guestsData, IsNew)

\* processEventGuests: buffer the new rows and flush at the threshold
AccumulateGuests(c, entries, newGuestsData, fault) ==
  IF Len(entries) > 0 /\ Len(newGuestsData) # 0
  THEN LET updatedAllGuestsData == c.s.allGuestsData \o newGuestsData
           accumulated == [c EXCEPT !.s.allGuestsData = updatedAllGuestsData]
       IN  IF Len(updatedAllGuestsData) >= GUESTS_FLUSH_THRESHOLD
           THEN FlushGuestsBuffer(accumulated, fault)
           ELSE [c |-> accumulated, threw |-> FALSE]
  ELSE [c |-> c, threw |-> FALSE]

\* processEventGuests: store the event's pagination state; on the last page
\* clear it and move to the next event
StoreGuestsState(s, eventId, guestsState, guestsResponse) ==
  LET newGuestsState ==
        [ eventId |-> eventId,
          nextCursor |-> guestsResponse.next_cursor,
          hasMore |-> guestsResponse.has_more,
          processedCount |-> guestsState.processedCount + Len(guestsResponse.entries) ]
      s1 == [s EXCEPT !.currentEventGuests = <<newGuestsState>>]
  IN  IF ~guestsResponse.has_more
      THEN [s1 EXCEPT !.currentEventGuests = <<>>, !.lastProcessedIndex = @ + 1]
      ELSE s1

\* processEventGuests after the rows were buffered (flushed: outcome so far)
AfterAccumulate(flushed, eventId, guestsState, guestsResponse) ==
  IF flushed.threw THEN flushed
  ELSE [c |-> [flushed.c EXCEPT !.s = StoreGuestsState(@, eventId, guestsState, guestsResponse)],
        threw |-> FALSE]

\* processEventGuests after getEventGuests answered guestsResponse
AfterGuestsResponse(c, eventId, guestsState, guestsResponse, fault) ==
  LET fetched == [c EXCEPT
                    !.fetches = Append(@, [eventId |-> eventId,
                                           cursor |-> guestsState.nextCursor,
                                           ok |-> guestsResponse.ok,
                                           has_more |-> guestsResponse.has_more,
                                           entries |-> guestsResponse.entries]),
                    !.nfaults = @ + (IF guestsResponse.ok THEN 0 ELSE 1)]
  IN  IF ~guestsResponse.ok THEN [c |-> fetched, threw |-> TRUE]
      ELSE AfterAccumulate(
             AccumulateGuests(fetched, guestsResponse.entries,
                              NewGuestsData(c.s, guestsResponse.entries, eventId), fault),
             eventId, guestsState, guestsResponse)

\* processEventGuests with the pagination state guestsState
FetchEventGuests(c, eventId, guestsState, src, fault) ==
  IF ~guestsState.hasMore THEN [c |-> c, threw |-> FALSE]
  ELSE AfterGuestsResponse(c, eventId, guestsState,
                           GetEventGuests(src, eventId, guestsState.nextCursor), fault)

\* processEventGuests(eventId)
ProcessEventGuests(c, eventId, src, fault) ==
  FetchEventGuests(c, eventId, GuestsStateOf(c.s, eventId), src, fault)

\* the catch of processBatch's loop: a failed event is recorded in failedEvents
CatchFailedEvent(r, eventId) ==
  IF r.threw THEN [r.c EXCEPT !.s.failedEvents = Append(@, eventId)] ELSE r.c

\* the for loop of processBatch over batch[k..]; stage 'details' is never
\* entered by this version of the service (no handler sets it)
RECURSIVE ProcessBatchLoop(_, _, _, _, _, _)
ProcessBatchLoop(c, stage, batch, k, src, fault) ==
  IF k > Len(batch) THEN c
  ELSE ProcessBatchLoop(
         IF stage # "guests" THEN c
         ELSE CatchFailedEvent(ProcessEventGuests(c, batch[k], src, fault), batch[k]),
         stage, batch, k + 1, src, fault)

\* newIndex of processBatch: the index read at the start plus the length of
\* the slice
NewIndex(lastProcessedIndex, batch) == lastProcessedIndex + Len(batch)

\* the end of processBatch: the index is set from the state read at the start
SetNewIndex(looped, advance, newIndex) ==
  IF advance THEN [looped EXCEPT !.s.lastProcessedIndex = newIndex] ELSE looped

\* pendingEvents.slice(lastProcessedIndex, lastProcessedIndex + BATCH_SIZE)
BatchOf(pendingEvents, lastProcessedIndex) ==
  SubSeq(pendingEvents, lastProcessedIndex + 1,
         Min(lastProcessedIndex + BATCH_SIZE, Len(pendingEvents)))

\* processBatch(stage)
ProcessBatch(c, stage, src, fault) ==
  LET state == c.s
      pendingEvents == state.pendingEvents
      lastProcessedIndex == state.lastProcessedIndex
      batch == BatchOf(pendingEvents, lastProcessedIndex)
  IN  SetNewIndex(ProcessBatchLoop(c, stage, batch, 1, src, fault),
                  stage # "guests" \/ state.currentEventGuests = <<>>,
                  NewIndex(lastProcessedIndex, batch))

\* C36: a processPendingEvents that leaves the stage alone after the final
\* flush
CompleteRunStayingInGuests(f) == f

\* processPendingEvents at the end of the guests stage, after the final flush
\* ended as f
CompleteRun(f) ==
  IF f.threw THEN f
  ELSE [c |-> [f.c EXCEPT !.s.currentStage = "completed"], threw |-> FALSE]

\* C37: a processPendingEvents that runs the final flush in stage 'completed'
\* as well
ProcessPendingEventsFlushingAgain(c, src, fault) ==
  LET state == c.s
  IN  IF state.lastProcessedIndex >= Len(state.pendingEvents)
         /\ state.currentStage \in {"events", "details"}
      THEN [c |-> [c EXCEPT !.s.currentStage = "guests", !.s.lastProcessedIndex = 0],
            threw |-> FALSE]
      ELSE IF state.lastProcessedIndex >= Len(state.pendingEvents)
              /\ state.currentStage \in {"guests", "completed"}
      THEN CompleteRun(FlushGuestsBuffer(c, fault))
      ELSE [c |-> ProcessBatch(c, state.currentStage, src, fault), threw |-> FALSE]

\* processPendingEvents()
ProcessPendingEvents(c, src, fault) ==
  LET state == c.s
      pendingEvents == state.pendingEvents
      lastProcessedIndex == state.lastProcessedIndex
      currentStage == state.currentStage
  IN  IF lastProcessedIndex >= Len(pendingEvents) /\ currentStage \in {"events", "details"}
      THEN [c |-> [c EXCEPT !.s.currentStage = "guests", !.s.lastProcessedIndex = 0],
            threw |-> FALSE]
      ELSE IF lastProcessedIndex >= Len(pendingEvents) /\ currentStage = "guests"
      THEN CompleteRun(FlushGuestsBuffer(c, fault))
      ELSE [c |-> ProcessBatch(c, currentStage, src, fault), threw |-> FALSE]

\* the after/before arguments of a getAllEvents call of queueAllEvents: both
\* branches (first page, later pages) pass the caller's filter
ListingFilter(isFirst, dateRange) == dateRange

\* the while (hasMore) loop of queueAllEvents after batchCount pages; the
\* failAt-th listing request fails (none when failAt = 0)
RECURSIVE FetchAllEvents(_, _, _, _, _, _, _)
FetchAllEvents(listing, failAt, dateRange, allEvents, nextCursor, batchCount, log) ==
  LET n == batchCount + 1
      isFirst == batchCount = 0
      cursor == IF isFirst THEN NoCursor ELSE nextCursor
      filter == ListingFilter(isFirst, dateRange)
      eventsResponse == GetAllEvents(listing, cursor)
      entry == [ cursor |-> cursor, after |-> filter.after, before |-> filter.before,
                 ok |-> n # failAt, has_more |-> eventsResponse.has_more,
                 next_cursor |-> eventsResponse.next_cursor,
                 entries |-> eventsResponse.entries ]
  IN  IF n = failAt
      THEN [ allEvents |-> allEvents, nextCursor |-> nextCursor, hasMore |-> TRUE,
             log |-> Append(log, entry), threw |-> TRUE ]
      ELSE IF eventsResponse.has_more
      THEN FetchAllEvents(listing, failAt, dateRange, allEvents \o eventsResponse.entries,
                          eventsResponse.next_cursor, n, Append(log, entry))
      ELSE [ allEvents |-> allEvents \o eventsResponse.entries,
             nextCursor |-> eventsResponse.next_cursor, hasMore |-> FALSE,
             log |-> Append(log, entry), threw |-> FALSE ]

\* a source that is not asked for guests (queueAllEvents runs
\* processPendingEvents in the events stage only)
NoGuestSource ==
  [ ok |-> TRUE,
    page |-> [e \in EventIds |-> [p \in 1..MaxPages |-> [entries |-> <<>>, more |-> FALSE]]] ]

\* queueAllEvents: the updateState after the listing loop ended as walk
StartRun(state, dateRange, walk) ==
  [state EXCEPT !.currentStage = "events",
                !.pendingEvents = walk.allEvents,
                !.lastProcessedIndex = 0,
                !.lastSyncTime = Now,
                !.eventDetails = {},
                !.nextCursor = walk.nextCursor,
                !.hasMore = walk.hasMore,
                !.dateRange = <<dateRange>>,
                !.guestsSheetInitialized = FALSE,
                !.allGuestsData = <<>>]

\* queueAllEvents: the call of processPendingEvents that ends it
FirstProcess(r) == [c |-> r.c, threw |-> r.threw, stored |-> TRUE]

\* queueAllEvents after SyncService.batchWriteToSheet('Events', eventsData)
\* ended as w (it makes no sink call on no rows)
EventsWritten(updated, eventsData, w) ==
  LET written == IF Len(eventsData) = 0 THEN updated
                 ELSE [updated EXCEPT
                         !.events = w.sheet,
                         !.writes = Append(@, [sheet |-> "Events", append |-> FALSE,
                                               ok |-> ~w.threw, rows |-> eventsData]),
                         !.nfaults = @ + (IF w.threw THEN 1 ELSE 0)]
  IN  IF w.threw THEN [c |-> written, threw |-> TRUE, stored |-> TRUE]
      ELSE FirstProcess(ProcessPendingEvents(written, NoGuestSource, NoSinkFault))

\* queueAllEvents after the state of the new run was stored
WriteEvents(updated, eventsData, fault) ==
  EventsWritten(updated, eventsData,
                BatchWriteToSheet(updated.events, eventsData, FALSE, fault))

\* queueAllEvents after the listing loop ended as walk
AfterListing(c, dateRange, walk, fault) ==
  LET listed == [c EXCEPT !.listFetches = walk.log,
                          !.nfaults = @ + (IF walk.threw THEN 1 ELSE 0)]
  IN  IF walk.threw THEN [c |-> listed, threw |-> TRUE, stored |-> FALSE]
      ELSE WriteEvents([listed EXCEPT !.s = StartRun(@, dateRange, walk),
                                      !.started = <<StartRun(listed.s, dateRange, walk)>>],
                       [i \in 1..Len(walk.allEvents) |-> EventRow(walk.allEvents[i])],
                       fault)

\* queueAllEvents(after, before); stored tells whether updateState was reached
QueueAllEvents(c, dateRange, listing, failAt, fault) ==
  AfterListing(c, dateRange,
               FetchAllEvents(listing, failAt, dateRange, <<>>, NoCursor, 0, <<>>), fault)

\* getStatus().progress times totalEvents (an integer: the weights are 20 and
\* 80 percent and the bonus of the event in progress is 40/totalEvents)
ProgressTimesTotal(state) ==
  LET totalEvents == Len(state.pendingEvents)
      processedEvents == state.lastProcessedIndex
      ceg == state.currentEventGuests
      bonus == IF ceg # <<>> THEN (IF ceg[1].processedCount > 0 THEN 40 ELSE 0) ELSE 0
      guestsProgress == IF bonus > 0
                        THEN Min(80 * processedEvents + bonus, 80 * totalEvents)
                        ELSE 80 * processedEvents
      overallProgress ==
        IF totalEvents = 0 THEN 0
        ELSE IF state.currentStage = "events" THEN 20 * processedEvents
        ELSE IF state.currentStage = "guests" THEN 20 * totalEvents + guestsProgress
        ELSE IF state.currentStage = "completed" THEN 100 * totalEvents
        ELSE 0
  IN  Max(0, Min(100 * totalEvents, overallProgress))

\* what ProgressTimesTotal is a multiple of: overallProgress is computed from
\* totalEvents only when totalEvents > 0 and is 0 otherwise
ProgressScale(state) ==
  IF Len(state.pendingEvents) > 0 THEN Len(state.pendingEvents) ELSE 1

\* getStatus(): progress is progressTimesTotal / progressScale
GetStatus(state) ==
  [ lastSyncTime |-> state.lastSyncTime,
    currentStage |-> state.currentStage,
    totalEvents |-> Len(state.pendingEvents),
    processedEvents |-> state.lastProcessedIndex,
    failedEvents |-> Len(state.failedEvents),
    progressTimesTotal |-> ProgressTimesTotal(state),
    progressScale |-> ProgressScale(state) ]

\* C33: a getStatus that stamps the state it read
GetStatusStamping(st) ==
  [ status |-> GetStatus(InitState(st)),
    stored |-> <<[InitState(st) EXCEPT !.lastSyncTime = Now]>> ]

\* getStatus() on storage st: the status it returns and what its initState
\* leaves in storage
GetStatusOn(st) ==
  [ status |-> GetStatus(InitState(st)), stored |-> <<InitState(st)>> ]

\* stopSync()
StopSync(state) ==
  [state EXCEPT !.currentStage = "completed",
                !.lastProcessedIndex = Len(state.pendingEvents)]

\* resetSync(): updateState with every field but nextCursor
ResetSync(state) ==
  [state EXCEPT !.lastSyncTime = NeverSynced,
                !.currentStage = "events",
                !.pendingEvents = <<>>,
                !.failedEvents = <<>>,
                !.lastProcessedIndex = 0,
                !.eventDetails = {},
                !.hasMore = TRUE,
                !.dateRange = <<>>,
                !.currentEventGuests = <<>>,
                !.allGuestsData = <<>>,
                !.guestsSheetInitialized = FALSE]

\* cleanup(): storage.put of a whole new state (no nextCursor key)
Cleanup ==
  [ lastSyncTime           |-> NeverSynced,
    currentStage           |-> "events",
    pendingEvents          |-> <<>>,
    failedEvents           |-> <<>>,
    lastProcessedIndex     |-> 0,
    eventDetails           |-> {},
    nextCursor             |-> NoCursor,
    hasMore                |-> TRUE,
    dateRange              |-> <<>>,
    currentEventGuests     |-> <<>>,
    allGuestsData          |-> <<>>,
    guestsSheetInitialized |-> FALSE ]

(***************************************************************************)
(* processPendingEvents in steps.  The storage of a Durable Object         *)
(* delivers no other event to the object while the object waits for a      *)
(* storage operation, and an await of a settled promise (logWithTimestamp) *)
(* lets no event in either: an invocation is suspended, with other         *)
(* requests and timers running meanwhile, only while it waits for the      *)
(* event source (getEventGuests) or for the sink (batchWriteToSheet).  A   *)
(* step is the code an invocation runs between two such waits; the sink    *)
(* call takes effect when it ends.  BATCH_SIZE = 1: the loop of            *)
(* processBatch has at most one round.                                     *)
(***************************************************************************)
\* no invocation: what an invocation in flight holds is the state read at its
\* start (state), the event and the pagination state of processEventGuests,
\* the response of getEventGuests, and buffer and initialized of
\* flushGuestsBuffer; byTimer tells whether the interval started it and
\* stopSeen whether stopSync completed while it was suspended
NoInvocation ==
  [ pc |-> "idle", byTimer |-> FALSE, stopSeen |-> FALSE, state |-> <<>>,
    eventId |-> 0, guestsState |-> <<>>, guestsResponse |-> <<>>,
    buffer |-> <<>>, initialized |-> FALSE ]

\* number of rows of guest id g in rows
RowsOf(g, rows) == Cardinality({i \in 1..Len(rows) : rows[i][1] = g})

\* the SyncState object of index.ts after construction: no interval runs.
\* Kept for the properties: resumedAfterStop (an invocation that saw stopSync
\* complete has finished) and detached (per guest id, the rows that
\* flushGuestsBuffer calls have taken out of the buffer)
NewDriver ==
  [ processingInterval |-> FALSE,
    inv                |-> [k \in Slots |-> NoInvocation],
    resumedAfterStop   |-> FALSE,
    detached           |-> [g \in GuestIds |-> 0] ]

\* the rows taken out of the buffer by a step from pc that ended as r
Detached(detached, pc, r) ==
  IF pc \notin {"flush", "finalFlush"} /\ r.inv.pc \in {"flush", "finalFlush"}
  THEN [g \in GuestIds |-> detached[g] + RowsOf(g, r.inv.buffer)]
  ELSE detached

\* the state updateState merges its updates into: the one initState returns
\* when updateState runs (stored), not the one the caller read earlier (state)
UpdateStateReads(stored, state) == stored

\* the invocation ended as r
Finished(r) == [c |-> r.c, threw |-> r.threw, inv |-> NoInvocation]

\* the end of processBatch after the event of the batch was handled as r
BatchHandled(r, state, eventId) ==
  Finished([c |-> SetNewIndex(CatchFailedEvent(r, eventId),
                              state.currentEventGuests = <<>>,
                              NewIndex(state.lastProcessedIndex,
                                       BatchOf(state.pendingEvents, state.lastProcessedIndex))),
            threw |-> FALSE])

\* flushGuestsBuffer up to its sink call: the buffer is emptied in storage
AwaitSink(c, inv, pc) ==
  [ c |-> [c EXCEPT !.s.allGuestsData = <<>>], threw |-> FALSE,
    inv |-> [inv EXCEPT !.pc = pc, !.buffer = c.s.allGuestsData,
                        !.initialized = c.s.guestsSheetInitialized] ]

\* processBatch(stage) up to the getEventGuests call of processEventGuests
ProcessBatchStart(c, stage) ==
  LET state == c.s
      batch == BatchOf(state.pendingEvents, state.lastProcessedIndex)
  IN  IF stage = "guests" /\ batch # <<>> /\ GuestsStateOf(state, batch[1]).hasMore
      THEN [ c |-> c, threw |-> FALSE,
             inv |-> [NoInvocation EXCEPT !.pc = "fetch", !.state = <<state>>,
                                          !.eventId = batch[1],
                                          !.guestsState = <<GuestsStateOf(state, batch[1])>>] ]
      ELSE Finished([c |-> SetNewIndex(c, stage # "guests" \/ state.currentEventGuests = <<>>,
                                       NewIndex(state.lastProcessedIndex, batch)),
                     threw |-> FALSE])

\* processPendingEvents() up to its first wait for the source or the sink
ProcessPendingEventsStart(c) ==
  LET state == c.s
      pendingEvents == state.pendingEvents
      lastProcessedIndex == state.lastProcessedIndex
      currentStage == state.currentStage
  IN  IF lastProcessedIndex >= Len(pendingEvents) /\ currentStage \in {"events", "details"}
      THEN Finished([c |-> [c EXCEPT !.s.currentStage = "guests", !.s.lastProcessedIndex = 0],
                     threw |-> FALSE])
      ELSE IF lastProcessedIndex >= Len(pendingEvents) /\ currentStage = "guests"
      THEN IF Len(state.allGuestsData) = 0
           THEN Finished(CompleteRun([c |-> c, threw |-> FALSE]))
           ELSE AwaitSink(c, [NoInvocation EXCEPT !.state = <<state>>], "finalFlush")
      ELSE ProcessBatchStart(c, currentStage)

\* processEventGuests after getEventGuests threw
GuestsRequestFailed(c, inv) ==
  BatchHandled([c |-> [c EXCEPT !.nfaults = @ + 1], threw |-> TRUE],
               inv.state[1], inv.eventId)

\* processEventGuests after getEventGuests answered guestsResponse, with the
\* rows of the page that are not in the buffer (newGuestsData)
GuestsAnswered(c, inv, guestsResponse, newGuestsData) ==
  IF Len(guestsResponse.entries) > 0 /\ Len(newGuestsData) # 0
  THEN IF Len(c.s.allGuestsData \o newGuestsData) >= GUESTS_FLUSH_THRESHOLD
       THEN AwaitSink([c EXCEPT !.s.allGuestsData = @ \o newGuestsData],
                      [inv EXCEPT !.guestsResponse = <<guestsResponse>>], "flush")
       ELSE BatchHandled(
              AfterAccumulate([c |-> [c EXCEPT !.s.allGuestsData = @ \o newGuestsData],
                               threw |-> FALSE],
                              inv.eventId, inv.guestsState[1], guestsResponse),
              inv.state[1], inv.eventId)
  ELSE BatchHandled(
         AfterAccumulate([c |-> c, threw |-> FALSE],
                         inv.eventId, inv.guestsState[1], guestsResponse),
         inv.state[1], inv.eventId)

\* the invocation inv goes on after getEventGuests ended as guestsResponse
ResumeAfterFetch(c, inv, guestsResponse) ==
  IF ~guestsResponse.ok THEN GuestsRequestFailed(c, inv)
  ELSE GuestsAnswered(c, inv, guestsResponse,
                      NewGuestsData(c.s, guestsResponse.entries, inv.eventId))

\* the invocation inv goes on after the sink call of flushGuestsBuffer ended
\* as flushed: the rest of processEventGuests and processBatch, or, after the
\* final flush, of processPendingEvents
ResumeAfterFlush(inv, flushed) ==
  IF inv.pc = "flush"
  THEN BatchHandled(AfterAccumulate(flushed, inv.eventId, inv.guestsState[1],
                                    inv.guestsResponse[1]),
                    inv.state[1], inv.eventId)
  ELSE Finished(CompleteRun(flushed))

\* the context a suspended invocation goes on with
ResumedContext(inv) ==
  Context(<<UpdateStateReads(InitState(storage), inv.state[1])>>, guestsSheet, eventsSheet)

(***************************************************************************)
(* LumaService.fetchWithAuth, fetchWithRetry and RateLimiter under         *)
(* concurrent callers.  A step is the code one caller runs between two     *)
(* awaits that wait for a timer or for the network; an await of a promise  *)
(* that is already settled does not let another caller run.  A timer may   *)
(* fire at any time after it was set.                                      *)
(***************************************************************************)
\* a fetchWithRetry call that has not started: i is the loop counter, log the
\* outcomes of the requests it has sent, waited whether its last acquireToken
\* had to wait for minDelay to pass
IdleCaller == [pc |-> "idle", i |-> 0, log |-> <<>>, waited |-> FALSE]

\* new LumaService(apiKey) with its new RateLimiter(300)
NewLumaService ==
  [ activeRequests  |-> 0,
    tokens          |-> maxTokens * TokenUnits,
    lastRefill      |-> StartTime,
    lastRequestTime |-> 0,
    now             |-> StartTime,
    caller          |-> [c \in Callers |-> IdleCaller] ]

\* the outcomes of one request: a response that is ok, a 4xx or a 5xx
\* response, or no response before REQUEST_TIMEOUT
Outcomes == {"ok", "4xx", "5xx", "timeout"}

\* the while condition of fetchWithAuth
AtCapacity(activeRequests) == activeRequests >= MAX_CONCURRENT_REQUESTS

\* the condition that ends the wait of acquireToken:
\* Date.now() - lastRequestTime >= minDelay
SpacingElapsed(now, lastRequestTime) == now - lastRequestTime >= minDelay

\* RateLimiter.refillTokens
RefillTokens(l) ==
  [l EXCEPT !.tokens = Min(maxTokens * TokenUnits, @ + (l.now - l.lastRefill)),
            !.lastRefill = l.now]

\* the end of acquireToken (tokens--, lastRequestTime = now, return) and the
\* fetch of fetchWithAuth that follows it
TakeToken(l, c) ==
  [l EXCEPT !.tokens = @ - TokenUnits,
            !.lastRequestTime = l.now,
            !.caller[c].pc = "request"]

\* one round of the while (true) of acquireToken, after refillTokens
Acquire(l, c) ==
  IF l.tokens > 0
  THEN IF SpacingElapsed(l.now, l.lastRequestTime)
       THEN TakeToken([l EXCEPT !.caller[c].waited = FALSE], c)
       ELSE [l EXCEPT !.caller[c].pc = "spacing", !.caller[c].waited = TRUE]
  ELSE [l EXCEPT !.caller[c].pc = "notoken"]

\* RateLimiter.acquireToken from the top of its loop
AcquireToken(l, c) == Acquire(RefillTokens(l), c)

\* fetchWithAuth from the top of its while loop
FetchWithAuth(l, c) ==
  IF AtCapacity(l.activeRequests)
  THEN [l EXCEPT !.caller[c].pc = "gate"]
  ELSE AcquireToken([l EXCEPT !.activeRequests = @ + 1], c)

\* the rest of fetchWithAuth and the catch of fetchWithRetry when the request
\* ended with outcome
FetchEnded(l, c, outcome) ==
  [l EXCEPT !.activeRequests = @ - 1,
            !.caller[c].log = Append(@, outcome),
            !.caller[c].pc = IF outcome = "ok" THEN "returned"
                             ELSE IF l.caller[c].i = Retries - 1 THEN "threw"
                             ELSE "backoff"]

(***************************************************************************)
(* Inputs of the environment.                                              *)
(***************************************************************************)
RECURSIVE SortedSeq(_)
SortedSeq(S) ==
  IF S = {} THEN <<>>
  ELSE LET m == CHOOSE x \in S : \A y \in S : x <= y
       IN  <<m>> \o SortedSeq(S \ {m})

\* the guest pages the source can return: up to GUESTS_PER_FETCH distinct ids
GuestPages ==
  {SortedSeq(S) : S \in {T \in SUBSET GuestIds : Cardinality(T) <= GUESTS_PER_FETCH}}

\* the event lists the source can hold: distinct event ids in any order
EventLists ==
  {evs \in UNION {[1..n -> EventIds] : n \in 0..MaxEvents} :
     \A i, j \in 1..Len(evs) : i # j => evs[i] # evs[j]}

\* the after/before filters a caller passes
DateRanges == {[after |-> NoDate, before |-> NoDate], [after |-> 1, before |-> 2]}

\* the inputs of the specification that interleaves every operation: guest
\* pages over the ids one page can hold, one filter
SpecPages == {p \in GuestPages : \A i \in 1..Len(p) : p[i] <= GUESTS_PER_FETCH}
SpecRanges == {[after |-> 1, before |-> 2]}

\* the guest pages of the specification of the worker object: an empty
\* page, a page below the flush threshold and a page that reaches it
DriverPages == {<<>>, <<1>>, SortedSeq(1..GUESTS_FLUSH_THRESHOLD)}

\* the inputs of the specification that replays one source with and without
\* a failed sink write: the guest pages of a source with fixed content
RetryPages == {<<>>, <<1>>, <<MaxGuests>>, <<1, 2>>}
RetryLists == {evs \in EventLists : \A i \in 1..Len(evs) : evs[i] = i}
RetryScripts(evs) ==
  {page \in [EventIds -> [1..MaxPages -> [entries : RetryPages, more : BOOLEAN]]] :
     \A e \in EventIds : \A p \in 1..MaxPages :
       /\ (p = MaxPages => ~page[e][p].more)
       /\ (e > Len(evs) => page[e][p] = [entries |-> <<>>, more |-> FALSE])}

\* the event lists of the specification of the worker object: no event, or one
DriverLists == {evs \in RetryLists : Len(evs) <= 1}

\* a source that answers this invocation's guest request with the page
\* (entries, more), or fails it
GuestSource(ok, entries, more) ==
  [ ok |-> ok,
    page |-> [e \in EventIds |-> [p \in 1..MaxPages |-> [entries |-> entries, more |-> more]]] ]

\* the faults that can hit the sink write of an invocation which, without
\* faults, ends with context c (an invocation makes at most one sink write)
FaultsOf(c) ==
  IF c.writes = <<>> THEN {NoSinkFault}
  ELSE SinkFaults(c.writes[1].rows, c.writes[1].append)

\* those of them that make the write throw
ThrowsOf(c) == {f \in FaultsOf(c) : ~f.readFails}

FaultsFor(throwsOnly, c) == IF throwsOnly THEN ThrowsOf(c) ELSE FaultsOf(c)

\* the guest request processPendingEvents would issue on state s, if any
WillFetch(s) ==
  /\ s.currentStage = "guests"
  /\ s.lastProcessedIndex < Len(s.pendingEvents)

(***************************************************************************)
(* The log of one invocation and the history of one run, kept for the      *)
(* properties only.                                                        *)
(***************************************************************************)
CallLog(op, c, threw) ==
  [ op |-> op,
    fetches |-> [i \in 1..Len(c.fetches) |->
                   [ eventId |-> c.fetches[i].eventId, cursor |-> c.fetches[i].cursor,
                     ok |-> c.fetches[i].ok, has_more |-> c.fetches[i].has_more ]],
    listFetches |-> c.listFetches,
    writes |-> c.writes,
    started |-> c.started,
    status |-> <<>>,
    threw |-> threw ]

NoContext == Context(<<>>, <<>>, <<>>)

NoHistory ==
  [ fetched     |-> {},     \* events with a guest fetch
    drained     |-> {},     \* events with a guest fetch that returned has_more = false
    seenOnce    |-> {},     \* guest ids returned in some guest page
    seenTwice   |-> {},     \* guest ids returned in two guest pages
    guestWrites |-> <<>>,   \* the batchWriteToSheet('Guests') calls: [append, ok]
    written     |-> [g \in GuestIds |-> 0],  \* rows per guest id in successful Guests writes
    errors      |-> FALSE ] \* a fetch or a sink call failed

PageIds(f) == IF f.ok THEN {f.entries[i] : i \in 1..Len(f.entries)} ELSE {}

RECURSIVE NoteFetches(_, _, _)
NoteFetches(h, fetches, k) ==
  IF k > Len(fetches) THEN h
  ELSE LET f == fetches[k]
       IN  NoteFetches([h EXCEPT
                          !.fetched = @ \cup {f.eventId},
                          !.drained = IF f.ok /\ ~f.has_more THEN @ \cup {f.eventId} ELSE @,
                          !.seenTwice = @ \cup (h.seenOnce \cap PageIds(f)),
                          !.seenOnce = @ \cup PageIds(f)],
                       fetches, k + 1)

GuestWritesOf(writes) ==
  LET IsGuests(w) == w.sheet = "Guests"
      gw == SelectSeq(writes, IsGuests)
  IN  [i \in 1..Len(gw) |-> [append |-> gw[i].append, ok |-> gw[i].ok]]

RECURSIVE NoteWrites(_, _, _)
NoteWrites(written, writes, k) ==
  IF k > Len(writes) THEN written
  ELSE LET w == writes[k]
       IN  NoteWrites(IF w.sheet = "Guests" /\ w.ok
                      THEN [g \in GuestIds |-> written[g] + RowsOf(g, w.rows)]
                      ELSE written,
                      writes, k + 1)

\* the run's history after an invocation that ended with context c
NoteCall(h, c) ==
  LET n == NoteFetches(h, c.fetches, 1)
  IN  [n EXCEPT !.guestWrites = @ \o GuestWritesOf(c.writes),
                !.written = NoteWrites(@, c.writes, 1),
                !.errors = @ \/ c.nfaults > 0]

(***************************************************************************)
(* Actions: one per public method of SyncService.  `kept` tells whether    *)
(* the specification keeps the history of the run.                         *)
(***************************************************************************)
Init ==
  /\ storage = <<>>
  /\ guestsSheet = <<HeaderRow>>
  /\ eventsSheet = <<HeaderRow>>
  /\ faults = 0
  /\ runs = 0
  /\ call = CallLog("none", NoContext, FALSE)
  /\ history = NoHistory
  /\ script = <<>>
  /\ luma = NewLumaService
  /\ driver = NewDriver

\* the effect of a queueAllEvents call that ended as r
QueueAllEventsDone(kept, r) ==
  /\ faults + r.c.nfaults <= MaxFaults
  /\ faults' = faults + r.c.nfaults
  /\ storage' = IF r.stored THEN <<r.c.s>> ELSE storage
  /\ guestsSheet' = r.c.guests
  /\ eventsSheet' = r.c.events
  /\ runs' = IF r.stored THEN runs + 1 ELSE runs
  /\ call' = CallLog("queueAllEvents", r.c, r.threw)
  /\ history' = IF ~kept THEN history
                ELSE IF r.stored THEN NoteCall(NoHistory, r.c)
                ELSE NoteCall(history, r.c)
  /\ UNCHANGED luma

QueueAllEventsWith(kept, lists, ranges, ends) ==
  \E evs \in lists, dateRange \in ranges, failAt \in 0..1, cursorAtEnd \in ends :
    \E fault \in FaultsOf(QueueAllEvents(Context(storage, guestsSheet, eventsSheet),
                                         dateRange, Listing(evs, cursorAtEnd), failAt,
                                         NoSinkFault).c) :
      /\ QueueAllEventsDone(kept,
                            QueueAllEvents(Context(storage, guestsSheet, eventsSheet),
                                           dateRange, Listing(evs, cursorAtEnd), failAt,
                                           fault))
      /\ UNCHANGED <<script, driver>>

\* the effect of a processPendingEvents call that ended as r
ProcessPendingEventsDone(kept, r) ==
  /\ faults + r.c.nfaults <= MaxFaults
  /\ faults' = faults + r.c.nfaults
  /\ storage' = <<r.c.s>>
  /\ guestsSheet' = r.c.guests
  /\ eventsSheet' = r.c.events
  /\ call' = CallLog("processPendingEvents", r.c, r.threw)
  /\ history' = IF kept THEN NoteCall(history, r.c) ELSE history
  /\ UNCHANGED <<runs, script, luma, driver>>

\* a processPendingEvents call against source src, with any sink fault that
\* can hit the sink write the call makes (throwsOnly: only faults that throw)
ProcessPendingEventsOn(kept, src, throwsOnly) ==
  \E fault \in FaultsFor(throwsOnly, ProcessPendingEvents(Context(storage, guestsSheet, eventsSheet),
                                                          src, NoSinkFault).c) :
    ProcessPendingEventsDone(kept,
                             ProcessPendingEvents(Context(storage, guestsSheet, eventsSheet),
                                                  src, fault))

ProcessPendingEventsWith(kept, pages) ==
  \E ok \in (IF WillFetch(InitState(storage)) THEN BOOLEAN ELSE {TRUE}) :
  \E entries \in (IF WillFetch(InitState(storage)) /\ ok THEN pages ELSE {<<>>}) :
  \E more \in (IF WillFetch(InitState(storage)) /\ ok THEN BOOLEAN ELSE {FALSE}) :
    ProcessPendingEventsOn(kept, GuestSource(ok, entries, more), FALSE)

QueueAllEventsCall ==
  /\ runs < MaxRuns
  /\ QueueAllEventsWith(FALSE, EventLists, SpecRanges, BOOLEAN)

ProcessPendingEventsCall == ProcessPendingEventsWith(FALSE, SpecPages)

GetStatusCall ==
  /\ storage' = GetStatusOn(storage).stored
  /\ call' = [CallLog("getStatus", NoContext, FALSE) EXCEPT
                !.status = <<GetStatusOn(storage).status>>]
  /\ UNCHANGED <<guestsSheet, eventsSheet, faults, runs, history, script, luma, driver>>

StopSyncCall ==
  /\ storage' = <<StopSync(InitState(storage))>>
  /\ call' = CallLog("stopSync", NoContext, FALSE)
  /\ UNCHANGED <<guestsSheet, eventsSheet, faults, runs, history, script, luma, driver>>

ResetSyncCall ==
  /\ storage' = <<ResetSync(InitState(storage))>>
  /\ call' = CallLog("resetSync", NoContext, FALSE)
  /\ UNCHANGED <<guestsSheet, eventsSheet, faults, runs, history, script, luma, driver>>

CleanupCall ==
  /\ storage' = <<Cleanup>>
  /\ call' = CallLog("cleanup", NoContext, FALSE)
  /\ UNCHANGED <<guestsSheet, eventsSheet, faults, runs, history, script, luma, driver>>

\* every operation of the operator surface, in any order
Next ==
  \/ QueueAllEventsCall
  \/ ProcessPendingEventsCall
  \/ GetStatusCall
  \/ StopSyncCall
  \/ ResetSyncCall
  \/ CleanupCall

Spec == Init /\ [][Next]_vars

\* one run: queueAllEvents on fresh storage, then the driver's
\* processPendingEvents calls, with the run's history kept
RunStart ==
  /\ runs = 0
  /\ QueueAllEventsWith(TRUE, EventLists, DateRanges, {FALSE})

RunProcess ==
  /\ runs = 1
  /\ ProcessPendingEventsWith(TRUE, GuestPages)

NextRun == RunStart \/ RunProcess

SpecRun == Init /\ [][NextRun]_vars

\* one run against a source with fixed content (script), in which sink
\* writes may throw: queueAllEvents on fresh storage, then the driver's
\* processPendingEvents calls
ScriptedSource == [ok |-> TRUE, page |-> script[1].page]

RetryStart ==
  /\ runs = 0
  /\ \E evs \in RetryLists : \E page \in RetryScripts(evs) : \E dateRange \in SpecRanges :
       /\ QueueAllEventsDone(TRUE,
                             QueueAllEvents(Context(storage, guestsSheet, eventsSheet),
                                            dateRange, Listing(evs, FALSE), 0, NoSinkFault))
       /\ script' = <<[evs |-> evs, dateRange |-> dateRange, page |-> page]>>
       /\ UNCHANGED driver

RetryProcess ==
  /\ runs = 1
  /\ ProcessPendingEventsOn(TRUE, ScriptedSource, TRUE)

NextRetry == RetryStart \/ RetryProcess

SpecRetry == Init /\ [][NextRetry]_vars

\* a run that stopSync interrupts in the middle of an event's guest pages,
\* and the run that queueAllEvents starts after it
RestartStart ==
  /\ runs = 0 \/ (runs = 1 /\ call.op = "stopSync")
  /\ QueueAllEventsWith(TRUE, RetryLists, SpecRanges, {FALSE})

RestartProcess ==
  /\ runs >= 1
  /\ ProcessPendingEventsWith(TRUE, SpecPages)

RestartStop ==
  /\ runs = 1
  /\ InitState(storage).currentStage = "guests"
  /\ InitState(storage).currentEventGuests # <<>>
  /\ StopSyncCall

NextRestart == RestartStart \/ RestartProcess \/ RestartStop

SpecRestart == Init /\ [][NextRestart]_vars

\* one run in which no fetch and no sink call fails: queueAllEvents on fresh
\* storage, then the driver's processPendingEvents calls for as long as the
\* driver runs (every event has at most MaxPages guest pages)
LiveStart ==
  /\ runs = 0
  /\ \E evs \in EventLists, dateRange \in SpecRanges :
       /\ QueueAllEventsDone(TRUE,
                             QueueAllEvents(Context(storage, guestsSheet, eventsSheet),
                                            dateRange, Listing(evs, FALSE), 0, NoSinkFault))
       /\ UNCHANGED <<script, driver>>

LiveProcess ==
  /\ runs = 1
  /\ \E entries \in (IF WillFetch(InitState(storage)) THEN GuestPages ELSE {<<>>}) :
     \E more \in (IF WillFetch(InitState(storage)) THEN BOOLEAN ELSE {FALSE}) :
       ProcessPendingEventsDone(TRUE,
                                ProcessPendingEvents(Context(storage, guestsSheet, eventsSheet),
                                                     GuestSource(TRUE, entries, more),
                                                     NoSinkFault))

NextLive == LiveStart \/ LiveProcess

\* the driver keeps calling processPendingEvents
SpecLive == Init /\ [][NextLive]_vars /\ WF_vars(LiveProcess)

\* concurrent fetchWithRetry calls on one LumaService
\* a caller calls fetchWithRetry(url)
CallFetchWithRetry(c) ==
  /\ luma.caller[c].pc = "idle"
  /\ luma' = FetchWithAuth(luma, c)
  /\ UNCHANGED <<syncVars, driver>>

\* the 50 ms timer of a caller that waits at the gate of fetchWithAuth, or
\* for a token in acquireToken, fires
Poll(c) ==
  /\ luma.caller[c].pc \in {"gate", "notoken"}
  /\ luma' = IF luma.caller[c].pc = "gate" THEN FetchWithAuth(luma, c)
             ELSE AcquireToken(luma, c)
  /\ UNCHANGED <<syncVars, driver>>

\* the check of a caller that waits in acquireToken for minDelay to pass
\* finds it passed: the wait ends and acquireToken returns
SpacingCheck(c) ==
  /\ luma.caller[c].pc = "spacing"
  /\ SpacingElapsed(luma.now, luma.lastRequestTime)
  /\ luma' = TakeToken(luma, c)
  /\ UNCHANGED <<syncVars, driver>>

\* the request of a caller ends
RequestEnds(c) ==
  /\ luma.caller[c].pc = "request"
  /\ \E outcome \in Outcomes : luma' = FetchEnded(luma, c, outcome)
  /\ UNCHANGED <<syncVars, driver>>

\* the backoff timer of fetchWithRetry fires: next round of its for loop
Retry(c) ==
  /\ luma.caller[c].pc = "backoff"
  /\ luma' = FetchWithAuth([luma EXCEPT !.caller[c].i = @ + 1], c)
  /\ UNCHANGED <<syncVars, driver>>

\* time passes
Tick ==
  /\ luma.now < StartTime + MaxTicks
  /\ luma' = [luma EXCEPT !.now = @ + 1]
  /\ UNCHANGED <<syncVars, driver>>

NextLuma ==
  \/ \E c \in Callers : CallFetchWithRetry(c)
  \/ \E c \in Callers : Poll(c)
  \/ \E c \in Callers : SpacingCheck(c)
  \/ \E c \in Callers : RequestEnds(c)
  \/ \E c \in Callers : Retry(c)
  \/ Tick

SpecLuma == Init /\ [][NextLuma]_vars

\* the worker object: the routes /start, /process and /stop and the interval
\* of startProcessing, with processPendingEvents invocations in flight
\* a new invocation takes the first free slot
FreeSlot(k) ==
  /\ driver.inv[k].pc = "idle"
  /\ \A j \in 1..(k - 1) : driver.inv[j].pc # "idle"

\* the effect of a step of the invocation in slot k that ended as r
DriverStep(k, byTimer, stopSeen, r) ==
  /\ faults + r.c.nfaults <= MaxFaults
  /\ faults' = faults + r.c.nfaults
  /\ storage' = <<r.c.s>>
  /\ guestsSheet' = r.c.guests
  /\ driver' = [driver EXCEPT
                  !.inv[k] = IF r.inv.pc = "idle" THEN NoInvocation
                             ELSE [r.inv EXCEPT !.byTimer = byTimer, !.stopSeen = stopSeen],
                  \* the catch of the interval's callback: stopProcessing
                  !.processingInterval = IF r.threw /\ byTimer THEN FALSE ELSE @,
                  !.resumedAfterStop = @ \/ (stopSeen /\ r.inv.pc = "idle"),
                  !.detached = Detached(@, driver.inv[k].pc, r)]
  /\ UNCHANGED <<eventsSheet, runs, call, history, script, luma>>

\* POST /start: queueAllEvents, then startProcessing
StartRoute ==
  /\ runs = 0
  /\ \E evs \in DriverLists, dateRange \in SpecRanges, failAt \in 0..1 :
       /\ QueueAllEventsDone(FALSE,
                             QueueAllEvents(Context(storage, guestsSheet, eventsSheet),
                                            dateRange, Listing(evs, FALSE), failAt, NoSinkFault))
       /\ driver' = [driver EXCEPT !.processingInterval =
                       IF QueueAllEvents(Context(storage, guestsSheet, eventsSheet),
                                         dateRange, Listing(evs, FALSE), failAt, NoSinkFault).threw
                       THEN @ ELSE TRUE]
  /\ UNCHANGED script

\* the interval of startProcessing fires: getStatus, then processPendingEvents
\* unless the stage is 'completed'
IntervalFires(k) ==
  /\ driver.processingInterval
  /\ FreeSlot(k)
  /\ IF InitState(storage).currentStage = "completed"
     THEN /\ driver' = [driver EXCEPT !.processingInterval = FALSE]
          /\ storage' = <<InitState(storage)>>
          /\ UNCHANGED <<guestsSheet, eventsSheet, faults, runs, call, history, script, luma>>
     ELSE DriverStep(k, TRUE, FALSE,
                     ProcessPendingEventsStart(Context(storage, guestsSheet, eventsSheet)))

\* /process during a run: processPendingEvents
ProcessRoute(k) ==
  /\ runs = 1
  /\ FreeSlot(k)
  /\ DriverStep(k, FALSE, FALSE,
                ProcessPendingEventsStart(Context(storage, guestsSheet, eventsSheet)))

\* the getEventGuests request of the invocation in slot k ends
GuestsRequestEnds(k) ==
  /\ driver.inv[k].pc = "fetch"
  /\ \E ok \in BOOLEAN :
     \E entries \in (IF ok THEN DriverPages ELSE {<<>>}) :
     \E more \in (IF ok THEN BOOLEAN ELSE {FALSE}) :
       DriverStep(k, driver.inv[k].byTimer, driver.inv[k].stopSeen,
                  ResumeAfterFetch(ResumedContext(driver.inv[k]), driver.inv[k],
                                   GetEventGuests(GuestSource(ok, entries, more),
                                                  driver.inv[k].eventId,
                                                  driver.inv[k].guestsState[1].nextCursor)))

\* the batchWriteToSheet call of the invocation in slot k ends
SinkCallEnds(k) ==
  /\ driver.inv[k].pc \in {"flush", "finalFlush"}
  /\ \E fault \in SinkFaults(driver.inv[k].buffer, driver.inv[k].initialized) :
       DriverStep(k, driver.inv[k].byTimer, driver.inv[k].stopSeen,
                  ResumeAfterFlush(driver.inv[k],
                                   FlushOutcome(ResumedContext(driver.inv[k]),
                                                ResumedContext(driver.inv[k]).s,
                                                driver.inv[k].buffer,
                                                driver.inv[k].initialized,
                                                BatchWriteToSheet(guestsSheet,
                                                                  driver.inv[k].buffer,
                                                                  driver.inv[k].initialized,
                                                                  fault))))

\* POST /stop of a started run: stopSync, then stopProcessing
StopRoute ==
  /\ runs = 1
  /\ storage' = <<StopSync(InitState(storage))>>
  /\ driver' = [driver EXCEPT
                  !.processingInterval = FALSE,
                  !.inv = [k \in Slots |->
                             IF driver.inv[k].pc = "idle" THEN driver.inv[k]
                             ELSE [driver.inv[k] EXCEPT !.stopSeen = TRUE]]]
  /\ UNCHANGED <<guestsSheet, eventsSheet, faults, runs, call, history, script, luma>>

NextDriver ==
  \/ StartRoute
  \/ \E k \in Slots : IntervalFires(k)
  \/ \E k \in Slots : ProcessRoute(k)
  \/ \E k \in Slots : GuestsRequestEnds(k)
  \/ \E k \in Slots : SinkCallEnds(k)
  \/ StopRoute

SpecDriver == Init /\ [][NextDriver]_vars

\* the driver's calls a run needs at most: two stage changes and, per event,
\* one call per page and one per failure
RunLength == 2 + MaxEvents * MaxPages + MaxFaults + MaxEvents

\* the run continued from context c without failures, for at most n calls
RECURSIVE RunWithoutFailure(_, _, _)
RunWithoutFailure(c, src, n) ==
  IF c.s.currentStage = "completed" \/ n = 0 THEN c
  ELSE RunWithoutFailure(ProcessPendingEvents(c, src, NoSinkFault).c, src, n - 1)

\* the same run as the scripted one, without any failure
ReferenceRun ==
  LET c0 == Context(<<>>, <<HeaderRow>>, <<HeaderRow>>)
      start == QueueAllEvents(c0, script[1].dateRange, Listing(script[1].evs, FALSE),
                              0, NoSinkFault)
  IN  RunWithoutFailure(start.c, ScriptedSource, RunLength)

(***************************************************************************)
(* Properties.                                                             *)
(***************************************************************************)
Stored == storage # <<>>
State == InitState(storage)
StateAfter == InitState(storage')

\* 0-based pendingEvents[i] of state s, 0 when i is out of range
PendingAt(s, i) == IF i >= 0 /\ i < Len(s.pendingEvents) THEN s.pendingEvents[i + 1] ELSE 0

PendingSet(s) == {s.pendingEvents[i] : i \in 1..Len(s.pendingEvents)}

\* the step is a processPendingEvents call made in the guests stage
GuestsStep ==
  /\ Stored
  /\ State.currentStage = "guests"
  /\ call'.op = "processPendingEvents"

\* a call of the guests stage without errors that moves the index fetched the
\* event at the index and got has_more = false
C1_AdvanceOnly ==
  GuestsStep /\ ~history'.errors
    /\ StateAfter.lastProcessedIndex > State.lastProcessedIndex
  => /\ Len(call'.fetches) = 1
     /\ call'.fetches[1].eventId = PendingAt(State, State.lastProcessedIndex)
     /\ call'.fetches[1].ok
     /\ ~call'.fetches[1].has_more

\* at 'completed' every pending event had a fetch that returned has_more = false
C1_AllDrained ==
  Stored /\ State.currentStage = "completed" /\ ~history.errors
  => PendingSet(State) \subseteq history.drained

\* C1 (as claimed): in the guests stage with no fetch or sink error,
\* lastProcessedIndex advances past event E only in a processPendingEvents
\* call whose guest fetch for E returned has_more = false, and so at
\* 'completed' every pending event has had its last guest page fetched.
C1_AdvancesOnlyPastDrainedEvent == [][C1_AdvanceOnly]_vars /\ []C1_AllDrained

\* C2 (as claimed): after queueAllEvents and any number of
\* processPendingEvents calls, a present currentEventGuests names the event
\* at pendingEvents[lastProcessedIndex].
C2_CursorEventIsCurrent ==
  Stored /\ State.currentEventGuests # <<>>
  => State.currentEventGuests[1].eventId = PendingAt(State, State.lastProcessedIndex)

\* C3 (as claimed): in a run without errors, a guest api_id the source
\* returned in two different guest pages is in exactly one row of the rows
\* written to the Guests sheet.
C3_RepeatedIdWrittenOnce ==
  Stored /\ State.currentStage = "completed" /\ ~history.errors
  => \A g \in history.seenTwice : history.written[g] = 1

\* the state was saved by a processPendingEvents call that fetched a page of
\* event E with has_more = true and stored E's cursor
SavedMidPagination ==
  /\ Stored
  /\ call.op = "processPendingEvents"
  /\ Len(call.fetches) = 1
  /\ call.fetches[1].ok /\ call.fetches[1].has_more
  /\ State.currentEventGuests # <<>>
  /\ State.currentEventGuests[1].eventId = call.fetches[1].eventId
  /\ State.currentEventGuests[1].hasMore

\* the call after the save fetches the saved event at the saved cursor
C4_ResumeStep ==
  SavedMidPagination /\ call'.op = "processPendingEvents"
  => /\ Len(call'.fetches) = 1
     /\ call'.fetches[1].eventId = State.currentEventGuests[1].eventId
     /\ call'.fetches[1].cursor = State.currentEventGuests[1].nextCursor

\* C4 (as claimed): a processPendingEvents call on a state saved while event
\* E was mid-guest-pagination at cursor C fetches event E with cursor C.
C4_ResumesAtSavedCursor == [][C4_ResumeStep]_vars

OverwritesOf(gw) == {i \in 1..Len(gw) : ~gw[i].append}

FailedGuestWrites(log) ==
  {i \in 1..Len(log.writes) : log.writes[i].sheet = "Guests" /\ ~log.writes[i].ok}

\* a call in which a Guests write threw ends with the rows of that write in
\* the buffer and with the stage and the initialized flag unchanged
C6_FailedFlushStep ==
  call'.op = "processPendingEvents" /\ FailedGuestWrites(call') # {}
  => \A i \in FailedGuestWrites(call') :
       /\ StateAfter.allGuestsData = call'.writes[i].rows
       /\ Len(StateAfter.allGuestsData) > 0
       /\ StateAfter.currentStage = State.currentStage
       /\ StateAfter.guestsSheetInitialized = State.guestsSheetInitialized

\* C6: when the sink write of flushGuestsBuffer throws, the handler ends with
\* allGuestsData holding exactly the rows the flush started with (the rows
\* handed to the sink), which are not empty, and with currentStage and
\* guestsSheetInitialized as they were.
C6_FailedFlushKeepsBuffer == [][C6_FailedFlushStep]_vars

\* a flush of more rows than one sub-batch failed in append mode and the
\* rows are in the buffer again
C6_Witness ==
  /\ Stored
  /\ call.op = "processPendingEvents"
  /\ \E i \in FailedGuestWrites(call) :
       /\ call.writes[i].append
       /\ Len(call.writes[i].rows) > SHEET_BATCH_SIZE
       /\ State.allGuestsData = call.writes[i].rows
  /\ State.guestsSheetInitialized

\* the data rows of a sheet, as a set
DataRows(sheet) == {sheet[i] : i \in 1..Len(sheet)} \ {HeaderRow}

\* C7 (as claimed): a run in which one sink write of a flush threw and the
\* driver was invoked again ends with the same set of rows in the Guests
\* sheet as the run on the same source without the failure.
C7_RetriedRunWritesSameRows ==
  Stored /\ State.currentStage = "completed" /\ faults = 1
  => /\ ReferenceRun.s.currentStage = "completed"
     /\ DataRows(guestsSheet) = DataRows(ReferenceRun.guests)

\* a call of the guests stage whose fetch threw moves the index by one and
\* records the event
C8_FailedFetchStep ==
  GuestsStep /\ Len(call'.fetches) = 1 /\ ~call'.fetches[1].ok
  => /\ StateAfter.lastProcessedIndex = State.lastProcessedIndex + 1
     /\ StateAfter.failedEvents = Append(State.failedEvents, call'.fetches[1].eventId)

\* C8 (as claimed, for one call): a processPendingEvents call of the guests
\* stage whose guest fetch for event E throws records E in failedEvents and
\* moves lastProcessedIndex past E, so that the calls after it reach the
\* other events and 'completed'.
C8_FailedEventIsSkipped == [][C8_FailedFetchStep]_vars

\* getStatus before and after a processPendingEvents call
C9_ProgressStep ==
  Stored /\ call'.op = "processPendingEvents"
  => /\ GetStatus(StateAfter).totalEvents = GetStatus(State).totalEvents
     /\ GetStatus(StateAfter).progressTimesTotal >= GetStatus(State).progressTimesTotal

\* C9 (as claimed): within a run, a processPendingEvents call does not lower
\* getStatus().progress (compared as progress times totalEvents, which the
\* call leaves unchanged).
C9_ProgressNonDecreasing == [][C9_ProgressStep]_vars

\* C10: after any sequence of queueAllEvents, processPendingEvents,
\* getStatus, stopSync, resetSync and cleanup calls,
\* 0 <= lastProcessedIndex <= length of pendingEvents.
C10_IndexInRange ==
  /\ State.lastProcessedIndex >= 0
  /\ State.lastProcessedIndex <= Len(State.pendingEvents)

\* processPendingEvents has moved the index to the end of a list of
\* MaxEvents events in the guests stage
C10_Witness ==
  /\ Stored
  /\ call.op = "processPendingEvents"
  /\ State.currentStage = "guests"
  /\ Len(State.pendingEvents) = MaxEvents
  /\ State.lastProcessedIndex = Len(State.pendingEvents)

\* the stages in the order events < guests < completed
StageRank(stage) ==
  IF stage = "events" THEN 1
  ELSE IF stage = "guests" THEN 2
  ELSE IF stage = "completed" THEN 3
  ELSE 0

\* the step does not move currentStage to a lower stage
StageNotLowered == StageRank(StateAfter.currentStage) >= StageRank(State.currentStage)

\* C11 (as claimed): currentStage never moves to a lower stage under any
\* operation other than resetSync: processPendingEvents, stopSync,
\* queueAllEvents and cleanup never rewind it.
C11_OnlyResetRewinds == [][call'.op # "resetSync" => StageNotLowered]_vars

\* C11 (amended): processPendingEvents, stopSync and getStatus never move
\* currentStage to a lower stage; the operations that do are resetSync,
\* cleanup and queueAllEvents, which each set it back to 'events'.
C11_DriverNeverRewinds ==
  [][call'.op \in {"processPendingEvents", "stopSync", "getStatus"} => StageNotLowered]_vars

\* the driver has brought the last run a behaviour can start to 'completed'
\* after a flush of that run: the stage went up, was set back by the start
\* of the run, and went up again
C11_Witness ==
  /\ Stored
  /\ runs = MaxRuns
  /\ call.op = "processPendingEvents"
  /\ State.currentStage = "completed"
  /\ Len(State.pendingEvents) > 0
  /\ State.guestsSheetInitialized
  /\ State.allGuestsData = <<>>

\* C12 (as claimed): when queueAllEvents(after, before) returns successfully,
\* currentStage is 'guests'.
C12_StartEndsInGuests ==
  call.op = "queueAllEvents" /\ ~call.threw => State.currentStage = "guests"

\* C13 (as claimed): queueAllEvents starts a run with lastProcessedIndex = 0,
\* failedEvents = [], allGuestsData = [] and guestsSheetInitialized = false,
\* whatever the persisted state was before the call (the state meant is the
\* one its updateState stores).
C13_StartResetsRun ==
  call.op = "queueAllEvents" /\ call.started # <<>>
  => /\ call.started[1].lastProcessedIndex = 0
     /\ call.started[1].failedEvents = <<>>
     /\ call.started[1].allGuestsData = <<>>
     /\ ~call.started[1].guestsSheetInitialized

\* the event ids of the pages log[k..], in page order
RECURSIVE EntriesFrom(_, _)
EntriesFrom(log, k) ==
  IF k > Len(log) THEN <<>> ELSE log[k].entries \o EntriesFrom(log, k + 1)

\* C14: a queueAllEvents that returns has walked the listing until a page
\* returned has_more = false, has passed the caller's after/before filter on
\* every page, has passed no cursor on the first page and on each later page
\* the next_cursor of the page before it; pendingEvents is the concatenation,
\* in page order, of the event ids of all pages.
C14_ListingWalkedToEnd ==
  call.op = "queueAllEvents" /\ ~call.threw
  => LET log == call.listFetches
         n == Len(log)
     IN  /\ n >= 1
         /\ ~log[n].has_more
         /\ \A i \in 1..(n - 1) : log[i].has_more
         /\ log[1].cursor = NoCursor
         /\ \A i \in 2..n : log[i].cursor = log[i - 1].next_cursor
         /\ \A i \in 1..n : /\ log[i].after = State.dateRange[1].after
                            /\ log[i].before = State.dateRange[1].before
         /\ State.pendingEvents = EntriesFrom(log, 1)
         /\ call.started[1].pendingEvents = EntriesFrom(log, 1)

\* a queueAllEvents with a date filter has returned after a listing of
\* MaxEvents pages
C14_Witness ==
  /\ call.op = "queueAllEvents" /\ ~call.threw
  /\ Len(call.listFetches) = MaxEvents
  /\ Len(State.pendingEvents) = MaxEvents
  /\ State.dateRange[1].after # NoDate

\* C15 (as claimed): if queueAllEvents fails because an event-list fetch or
\* the Events sink write throws, the error propagates and the persisted
\* SyncState is the same as before the call.
C15_FailedStartStep ==
  call'.op = "queueAllEvents" /\ call'.threw => StateAfter = State

C15_FailedStartLeavesState == [][C15_FailedStartStep]_vars

\* a processPendingEvents call fetches at most one guest page, of the event
\* at the index, and changes the stage by at most one step, and not at all
\* when it fetches
C16_BoundedStep ==
  call'.op = "processPendingEvents"
  => /\ Len(call'.fetches) <= 1
     /\ Len(call'.fetches) = 1
          => /\ call'.fetches[1].eventId = PendingAt(State, State.lastProcessedIndex)
             /\ StateAfter.currentStage = State.currentStage
     /\ StageRank(StateAfter.currentStage) - StageRank(State.currentStage) \in {0, 1}

\* C16: each processPendingEvents call performs one bounded unit of work: it
\* issues at most one guest-page fetch (for exactly one event, the one at
\* lastProcessedIndex) and performs at most one stage transition.
C16_OneUnitOfWork == [][C16_BoundedStep]_vars

\* a call has fetched one guest page while another event was still pending
C16_Witness ==
  /\ Stored
  /\ call.op = "processPendingEvents"
  /\ Len(call.fetches) = 1
  /\ State.currentStage = "guests"
  /\ Len(State.pendingEvents) = MaxEvents
  /\ State.lastProcessedIndex < Len(State.pendingEvents)

\* the Guests writes (flush attempts) of the invocation logged in log
GuestWrites(log) == {i \in 1..Len(log.writes) : log.writes[i].sheet = "Guests"}

C17_ThresholdStep ==
  GuestsStep /\ Len(StateAfter.allGuestsData) >= GUESTS_FLUSH_THRESHOLD
  => GuestWrites(call') # {}

\* C17 (as claimed): at the end of every processPendingEvents call in the
\* guests stage, if allGuestsData has reached GUESTS_FLUSH_THRESHOLD rows then
\* a flush was attempted during that call, whatever the page held.
C17_FlushAtThreshold == [][C17_ThresholdStep]_vars

\* the call that ends the guests stage with an empty buffer (its
\* flushGuestsBuffer finds nothing to flush) makes no sink call and changes
\* nothing but the stage, which processPendingEvents sets after the flush
C18_EmptyFlushStep ==
  GuestsStep /\ State.lastProcessedIndex >= Len(State.pendingEvents)
    /\ State.allGuestsData = <<>>
  => /\ call'.writes = <<>>
     /\ ~call'.threw
     /\ guestsSheet' = guestsSheet
     /\ StateAfter = [State EXCEPT !.currentStage = "completed"]

\* C18: flushGuestsBuffer on an empty allGuestsData issues no sink call and
\* changes no field of the persisted state.
C18_EmptyFlushIsNoOp == [][C18_EmptyFlushStep]_vars

\* a run that flushed rows before has ended with a final flush of an empty
\* buffer
C18_Witness ==
  /\ Stored
  /\ call.op = "processPendingEvents"
  /\ State.currentStage = "completed"
  /\ call.writes = <<>>
  /\ Len(history.guestWrites) > 0
  /\ State.guestsSheetInitialized

C19_StopStep ==
  call'.op = "stopSync"
  => /\ StateAfter = [State EXCEPT !.currentStage = "completed",
                                   !.lastProcessedIndex = Len(State.pendingEvents)]
     /\ call'.writes = <<>>
     /\ guestsSheet' = guestsSheet
     /\ eventsSheet' = eventsSheet

\* C19: stopSync sets currentStage to 'completed' and lastProcessedIndex to
\* the length of pendingEvents, issues no sink write, and leaves allGuestsData
\* and every other field of the state unchanged.
C19_StopKeepsTheRest == [][C19_StopStep]_vars

\* stopSync has ended a run with rows in the buffer
C19_Witness ==
  /\ Stored
  /\ call.op = "stopSync"
  /\ State.currentStage = "completed"
  /\ Len(State.pendingEvents) > 0
  /\ State.lastProcessedIndex = Len(State.pendingEvents)
  /\ Len(State.allGuestsData) > 0

\* C20 (as claimed): after resetSync, from any prior state, every field of
\* the persisted SyncState equals its value in the default state that
\* initState creates on first read.
C20_ResetIsDefault == call.op = "resetSync" => State = DefaultState

\* the sink writes of the invocation logged in log that used mode append
\* (TRUE) or overwrite (FALSE)
WritesIn(log, append) == {i \in 1..Len(log.writes) : log.writes[i].append = append}

\* the sheet a write of the log went to, before and after the step
SheetBefore(w) == IF w.sheet = "Guests" THEN guestsSheet ELSE eventsSheet
SheetAfter(w) == IF w.sheet = "Guests" THEN guestsSheet' ELSE eventsSheet'

\* an invocation makes at most one sink write, so the sheet after the step is
\* the sheet after that write
C21_OverwriteStep ==
  \A i \in WritesIn(call', FALSE) :
    call'.writes[i].ok => SheetAfter(call'.writes[i]) = <<HeaderRow>> \o call'.writes[i].rows

\* C21 (as claimed): after a successful overwrite write
\* batchWriteToSheet(dest, rows, append=false), the destination holds the
\* header row followed by exactly rows, in order, for every number of rows,
\* including more rows than one sub-batch.
C21_OverwriteHoldsHeaderAndRows == [][C21_OverwriteStep]_vars

C22_AppendStep ==
  \A i \in WritesIn(call', TRUE) :
    LET w == call'.writes[i]
    IN  /\ Len(SheetAfter(w)) >= Len(SheetBefore(w))
        /\ SubSeq(SheetAfter(w), 1, Len(SheetBefore(w))) = SheetBefore(w)
        /\ w.ok => SheetAfter(w) = SheetBefore(w) \o w.rows

\* C22 (as claimed): an append write batchWriteToSheet(dest, rows,
\* append=true) places rows directly after the rows already present and never
\* changes a row that was already in the destination, for every outcome of
\* the read of the current extent, including a failed read.
C22_AppendKeepsPresentRows == [][C22_AppendStep]_vars

\* the requests of the step that failed (each fault is one failed request)
FailedRequests == faults' - faults

C23_FailedWriteStep ==
  (\E i \in 1..Len(call'.writes) : ~call'.writes[i].ok) => FailedRequests > 1

\* C23 (as claimed): a sub-batch write that fails is retried, and
\* batchWriteToSheet fails only after the retries of that sub-batch are
\* exhausted: a write that threw has seen more than one failed request.
C23_WriteFailsAfterRetries == [][C23_FailedWriteStep]_vars

C27_TransientFailureStep ==
  GuestsStep /\ Len(call'.fetches) = 1 /\ ~call'.fetches[1].ok /\ FailedRequests = 1
  => StateAfter.failedEvents = State.failedEvents

\* C27 (as claimed): a guest-page fetch that fails once with a transient
\* error is retried; the event is recorded in failedEvents only after the
\* attempts are exhausted, so a single failed request does not mark the event
\* failed.
C27_SingleFailureNotRecorded == [][C27_TransientFailureStep]_vars

\* the call fetched a guest page and the fetch, or the flush at the
\* threshold, failed
C28_EventFailedIn(log) ==
  /\ log.op = "processPendingEvents"
  /\ Len(log.fetches) = 1
  /\ ~log.fetches[1].ok \/ FailedGuestWrites(log) # {}

C28_CaughtStep ==
  GuestsStep /\ C28_EventFailedIn(call')
  => /\ ~call'.threw
     /\ StateAfter.failedEvents = Append(State.failedEvents, call'.fetches[1].eventId)

\* C28: processPendingEvents does not throw when the guest fetch, or a
\* threshold flush, of the current event fails: the error is caught, the
\* event id is appended to failedEvents, and the call returns normally.
C28_EventErrorIsCaught == [][C28_CaughtStep]_vars

\* a call whose threshold flush threw has returned normally with the event
\* recorded
C28_Witness ==
  /\ Stored
  /\ C28_EventFailedIn(call)
  /\ call.fetches[1].ok
  /\ ~call.threw
  /\ Len(State.failedEvents) = 1
  /\ State.failedEvents[1] = call.fetches[1].eventId

\* C24: under any interleaving of concurrent fetchWithAuth callers, the
\* number of in-flight requests (activeRequests) never exceeds
\* MAX_CONCURRENT_REQUESTS (and is the number of callers past the gate).
C24_GateBoundsActiveRequests ==
  /\ luma.activeRequests <= MAX_CONCURRENT_REQUESTS
  /\ luma.activeRequests =
       Cardinality({c \in Callers : luma.caller[c].pc \in {"notoken", "spacing", "request"}})

\* the gate is full and a caller waits at it
C24_Witness ==
  /\ luma.activeRequests = MAX_CONCURRENT_REQUESTS
  /\ \E c \in Callers : luma.caller[c].pc = "gate"

\* the step in which acquireToken returns to caller c
AcquireTokenReturns(c) ==
  luma.caller[c].pc # "request" /\ luma'.caller[c].pc = "request"

C25_ReturnStep ==
  \A c \in Callers :
    AcquireTokenReturns(c)
    => /\ luma.lastRequestTime # 0 => luma'.now - luma.lastRequestTime >= minDelay
       /\ luma'.lastRequestTime = luma'.now
       /\ luma'.tokens >= 0

\* C25: any two consecutive returns of acquireToken, under any interleaving
\* of concurrent callers, are at least minDelay apart, and acquireToken
\* returns only when a token is available (the bucket held a whole token,
\* which the return takes).
C25_ReturnsSpacedByMinDelay == [][C25_ReturnStep]_vars

\* acquireToken has just returned to a caller that had to wait, while
\* another caller still waits for minDelay to pass
C25_Witness ==
  /\ luma.lastRequestTime = luma.now
  /\ \E c \in Callers : luma.caller[c].pc = "request" /\ luma.caller[c].waited
  /\ \E c \in Callers : luma.caller[c].pc = "spacing"

\* C26 (as claimed): fetchWithRetry retries only after a timeout or a 5xx
\* response; a request that fails with a 4xx response is attempted once and
\* its error propagates without retry.
C26_NoRetryAfter4xx ==
  \A c \in Callers :
    \A k \in 1..Len(luma.caller[c].log) :
      luma.caller[c].log[k] = "4xx"
      => /\ k = Len(luma.caller[c].log)
         /\ luma.caller[c].pc = "threw"

\* the invocations the interval started that are in flight
InFlightByTimer == {k \in Slots : driver.inv[k].pc # "idle" /\ driver.inv[k].byTimer}

\* C29 (as claimed): under the interval driver started by startProcessing, a
\* processPendingEvents invocation never starts while an earlier invocation
\* is still in flight: at most one of the interval's invocations is in
\* flight at a time.
C29_IntervalInvocationsDoNotOverlap == Cardinality(InFlightByTimer) <= 1

\* stopSync has completed: the run was stopped and the stage was 'completed'
\* when it did
Stopped ==
  \/ driver.resumedAfterStop
  \/ \E k \in Slots : driver.inv[k].stopSeen

\* C30: if stopSync completes while a processPendingEvents invocation is
\* suspended at an await, then currentStage is still 'completed' while the
\* invocation goes on and after it has finished: the in-flight unit never
\* moves the stage back to 'events' or 'guests'.
C30_StageStaysCompleted == Stopped => State.currentStage = "completed"

\* an invocation that was suspended when stopSync completed has finished and
\* has written what it fetched to the state
C30_Witness ==
  /\ driver.resumedAfterStop
  /\ \A k \in Slots : driver.inv[k].pc = "idle"
  /\ State.currentStage = "completed"
  /\ State.allGuestsData # <<>>
  /\ State.currentEventGuests # <<>>

\* C32 (as claimed): whenever currentStage is 'completed', getStatus().progress
\* is 100, for every number of pending events including zero.
C32_CompletedIsHundredPercent ==
  State.currentStage = "completed"
  => GetStatus(State).progressTimesTotal = 100 * GetStatus(State).progressScale

C33_StatusStep ==
  call'.op = "getStatus" /\ Stored
  => /\ storage' = storage
     /\ guestsSheet' = guestsSheet
     /\ eventsSheet' = eventsSheet
     /\ call'.status[1].failedEvents = Len(State.failedEvents)

\* C33: getStatus changes no field of an existing persisted SyncState, and the
\* failedEvents count it reports equals the length of failedEvents in that
\* state.
C33_StatusReadsOnly == [][C33_StatusStep]_vars

\* getStatus has reported a run with a failed event
C33_Witness ==
  /\ call.op = "getStatus"
  /\ runs > 0
  /\ Len(State.failedEvents) = 1
  /\ call.status[1].failedEvents = 1
  /\ call.status[1].totalEvents > 0

C37_CompletedStep ==
  Stored /\ State.currentStage = "completed" /\ call'.op = "processPendingEvents"
  => /\ call'.fetches = <<>>
     /\ call'.writes = <<>>
     /\ guestsSheet' = guestsSheet
     /\ eventsSheet' = eventsSheet
     /\ StateAfter.currentStage = "completed"
     /\ StateAfter.pendingEvents = State.pendingEvents
     /\ StateAfter.allGuestsData = State.allGuestsData
     /\ StateAfter.failedEvents = State.failedEvents

\* C37: once currentStage is 'completed', a processPendingEvents call issues
\* no source fetch and no sink write and leaves currentStage, pendingEvents,
\* allGuestsData and failedEvents unchanged.
C37_CompletedCallIsIdle == [][C37_CompletedStep]_vars

\* processPendingEvents was called on a run that stopSync had completed with
\* rows in the buffer (a run that completes by itself has flushed them)
C37_Witness ==
  /\ Stored
  /\ call.op = "processPendingEvents"
  /\ State.currentStage = "completed"
  /\ State.allGuestsData # <<>>
  /\ call.fetches = <<>>
  /\ call.writes = <<>>

\* a call of the guests stage fetched a page of an event and the flush that
\* the page triggered threw
C34_FailedThresholdFlush(log) ==
  /\ log.op = "processPendingEvents"
  /\ Len(log.fetches) = 1
  /\ log.fetches[1].ok
  /\ FailedGuestWrites(log) # {}

C34_FailedFlushStep ==
  GuestsStep /\ C34_FailedThresholdFlush(call')
  => /\ \A i \in FailedGuestWrites(call') : StateAfter.allGuestsData = call'.writes[i].rows
     /\ call'.fetches[1].has_more
        => StateAfter.lastProcessedIndex = State.lastProcessedIndex

\* C34 (as claimed): when a threshold-triggered flush fails while
\* processPendingEvents is handling a page of event E, no guest data is
\* dropped: the rows fetched so far stay in allGuestsData, and
\* lastProcessedIndex does not advance past E until a page of E with
\* has_more=false has been fetched.
C34_FailedFlushKeepsEvent == [][C34_FailedFlushStep]_vars

\* C39: every fetchWithAuth call decrements activeRequests exactly once,
\* whether it ends in success, an HTTP error or a timeout: activeRequests is
\* never negative, and it is 0 whenever no call is in progress.
C39_ActiveRequestsBalanced ==
  /\ luma.activeRequests >= 0
  /\ (\A c \in Callers : luma.caller[c].pc \in {"idle", "backoff", "returned", "threw"})
     => luma.activeRequests = 0

\* the outcomes of the requests of caller c
OutcomesOf(c) == {luma.caller[c].log[k] : k \in 1..Len(luma.caller[c].log)}

\* no call is in progress; calls have ended in success, in an HTTP error and
\* in a timeout
C39_Witness ==
  /\ \A c \in Callers : luma.caller[c].pc \in {"backoff", "returned", "threw"}
  /\ {"ok", "5xx", "timeout"} \subseteq UNION {OutcomesOf(c) : c \in Callers}
  /\ luma.activeRequests = 0

C35_FirstFetchStep ==
  call'.op = "processPendingEvents"
  => \A i \in 1..Len(call'.fetches) :
       call'.fetches[i].eventId \notin history.fetched
       => call'.fetches[i].cursor = NoCursor

\* C35 (as claimed): after stopSync interrupts a run mid-guest-pagination and
\* queueAllEvents starts a new run, the first guest fetch of every event in
\* the new run is issued with no cursor: a currentEventGuests cursor left by
\* the earlier run is never used by the new run.
C35_NewRunStartsAtFirstPage == [][C35_FirstFetchStep]_vars

\* C36: if every event has finitely many guest pages and no fetch or sink
\* call fails, then after queueAllEvents repeated processPendingEvents calls
\* eventually set currentStage to 'completed', and at that point
\* allGuestsData is empty.
C36_RunCompletesWithEmptyBuffer ==
  /\ (runs = 1) ~> (State.currentStage = "completed")
  /\ [](runs = 1 /\ State.currentStage = "completed" => State.allGuestsData = <<>>)

\* a run over MaxEvents events has completed after a final flush that wrote
\* buffered rows
C36_Witness ==
  /\ runs = 1
  /\ State.currentStage = "completed"
  /\ Len(State.pendingEvents) = MaxEvents
  /\ call.op = "processPendingEvents"
  /\ Len(call.writes) = 1
  /\ call.writes[1].ok
  /\ State.allGuestsData = <<>>

\* the invocation in slot k, started by the interval, ends in this step with
\* a failed final flush
C38_FinalFlushFails(k) ==
  /\ driver.inv[k].pc = "finalFlush"
  /\ driver.inv[k].byTimer
  /\ driver'.inv[k].pc = "idle"
  /\ faults' = faults + 1
  /\ InitState(storage').allGuestsData # <<>>
  /\ InitState(storage').currentStage = "guests"

C38_IntervalStep ==
  \A k \in Slots :
    C38_FinalFlushFails(k) /\ driver.processingInterval => driver'.processingInterval

\* C38 (as claimed): after the final flush fails once (processPendingEvents
\* throws in the guests stage), the interval driver started by
\* startProcessing invokes processPendingEvents again, so the buffered rows
\* reach the sink and currentStage reaches 'completed' without operator
\* action: the failed invocation leaves the interval running.
C38_IntervalSurvivesFailedFlush == [][C38_IntervalStep]_vars

\* no processPendingEvents invocation is in flight
Quiescent == \A k \in Slots : driver.inv[k].pc = "idle"

\* C31 (as claimed): if two flushGuestsBuffer executions overlap (two
\* processPendingEvents invocations in flight), no buffered guest row is
\* written to the Guests sink by both of them and no buffered row is lost:
\* when no call has failed and the invocations have ended, every guest whose
\* row a flush took out of the buffer has a row on the Guests sheet, and the
\* sheet holds no more rows of a guest than the flushes took out.
C31_DetachedRowsWrittenOnce ==
  faults = 0 /\ Quiescent
  => \A g \in GuestIds :
       /\ driver.detached[g] > 0 => RowsOf(g, guestsSheet) > 0
       /\ RowsOf(g, guestsSheet) <= driver.detached[g]

====
